---- MODULE Spec2Model ----
(***************************************************************************)
(* Graph store (Graph.cpp), shortest-path engine (PathFinder.cpp) and the  *)
(* export and import of a store (JsonHandler.cpp) of the Dijkstra travel   *)
(* planner.                                                                *)
(*                                                                         *)
(* Node keys and edge keys are opaque strings in the source; here they are *)
(* small positive integers.  A node is the pair (key, name).  An edge is a *)
(* record of its key, its two endpoint nodes (shared pointers in the       *)
(* source, node records here) and its three weights.  Weights are          *)
(* non-negative integers.  Search distances are kept exactly, in units of  *)
(* 1/ScoreScale, so that the BALANCED score (w/100 + t/5 + c/50)/3 is the  *)
(* integer w + 20t + 2c; the rounding of double arithmetic is not          *)
(* modelled.  The order in which a hash map is iterated and the order in   *)
(* which the priority queue yields entries of equal distance are free.     *)
(***************************************************************************)
EXTENDS Integers, Sequences, FiniteSets, TLC

\* ------------------------------------------------------------------ bounds
\* Edge keys the store operations are called with.
NumEdgeIds == 2

\* The largest number of edges in a store a query runs on.
MaxEdges == 3

NodeIds == {1, 2, 3}
EdgeIds == 1..NumEdgeIds
Names == {"n1", "n2"}

\* A null shared_ptr (a node, an edge, or an endpoint of an edge).
NullPtr == [null |-> TRUE]

\* A Node object: its key and its display name.
Node(id, name) == [id |-> id, name |-> name]

\* std::numeric_limits<double>::infinity(), with the comparisons that hold
\* for it: nothing is above it, every finite value is below it.
Infinity == -1

Less(a, b) == a # Infinity /\ (b = Infinity \/ a < b)

Greater(a, b) == Less(b, a)

VARIABLES
    nodes_,          \* Graph::nodes_: node key -> the stored node
    adjacencyList_,  \* Graph::adjacencyList_: node key -> sequence of edges
    edges_,          \* Graph::edges_: sequence of edges
    call,            \* the last store operation and the value it returned
    pc,              \* position of the running query
    query,           \* arguments of the running query
    distances,       \* local of both queries: node key -> tentative distance
    predecessors,    \* local of findShortestPath: node key -> node key
    via,             \* history: the edge whose relaxation set predecessors[k]
    pq,              \* local of findShortestPath: the priority queue's entries
    processed,       \* local of findShortestPaths: set of processed nodes
    examined,        \* history: how often each node's outgoing edges were read
    result           \* the value the query returned

store == <<nodes_, adjacencyList_, edges_>>

\* The Graph object as one value.
G == [nodes |-> nodes_, adjacencyList |-> adjacencyList_, edges |-> edges_]

EmptyGraph == [nodes |-> <<>>, adjacencyList |-> <<>>, edges |-> <<>>]

search == <<pc, query, distances, predecessors, via, pq, processed, examined, result>>
vars == <<nodes_, adjacencyList_, edges_, call, pc, query, distances,
          predecessors, via, pq, processed, examined, result>>

\* ------------------------------------------------------------ small helpers
Empty == <<>>

Range(s) == {s[i] : i \in 1..Len(s)}

\* std::remove_if + erase: the elements of s outside doomed (the elements
\* the predicate holds of), in order.
RemoveIf(s, doomed) == SelectSeq(s, LAMBDA e: e \notin doomed)

\* A map without the entry for key k (unordered_map::erase).
MapErase(m, k) == [x \in DOMAIN m \ {k} |-> m[x]]

\* A map with m[k] = v, inserted or overwritten (unordered_map::operator[]).
MapPut(m, k, v) == [x \in DOMAIN m \cup {k} |-> IF x = k THEN v ELSE m[x]]

Edge(id, src, dst, w, t, c) ==
    [id |-> id, source |-> src, destination |-> dst,
     weight |-> w, timeWeight |-> t, costWeight |-> c]

\* --------------------------------------------------------------- the store
\* Each operation is a function of the Graph object g and its argument, giving
\* the Graph object after the call and the value returned.
Returned(g, ret) == [g |-> g, ret |-> ret]

\* Graph::getNode: the stored node, or NullPtr.
getNode(g, nodeId) ==
    IF nodeId \in DOMAIN g.nodes THEN g.nodes[nodeId] ELSE NullPtr

\* Graph::getOutgoingEdges: a copy of the list, or an empty list.
getOutgoingEdges(g, nodeId) ==
    IF nodeId \in DOMAIN g.adjacencyList THEN g.adjacencyList[nodeId] ELSE <<>>

\* AfterGetNode with nodes_[nodeId] for the find(): operator[] makes an entry
\* holding a null pointer when there is none.
AfterGetNodeInserting(g, nodeId) ==
    IF nodeId \in DOMAIN g.nodes THEN g
    ELSE [g EXCEPT !.nodes = MapPut(g.nodes, nodeId, NullPtr)]

\* The Graph object after getNode and after getOutgoingEdges: both are const
\* and look the key up with find(), which inserts nothing.
AfterGetNode(g, nodeId) == g

AfterGetOutgoingEdges(g, nodeId) == g

\* Graph::getAllNodes and Graph::getAllEdges.  The nodes are listed in the
\* iteration order of the hash map, which is any order: here, the set of
\* the lists getAllNodes can return.
Orderings(S) ==
    {order \in [1..Cardinality(S) -> S] : Range(order) = S}

getAllNodes(g) ==
    {[i \in 1..Len(order) |-> g.nodes[order[i]]] :
        order \in Orderings(DOMAIN g.nodes)}

getAllEdges(g) == g.edges

getNodeCount(g) == Cardinality(DOMAIN g.nodes)

getEdgeCount(g) == Len(g.edges)

\* AddNodeRejects without the test of the key.
AddNodeRejectsNull(g, node) == node = NullPtr

\* Graph::addNode, node = NullPtr or a Node.
AddNodeRejects(g, node) == node = NullPtr \/ node.id \in DOMAIN g.nodes

\* AddNodeAdjacency assigning the whole index, not the one entry.
AddNodeAdjacencyAlone(g, node) == MapPut(Empty, node.id, <<>>)

AddNodeAdjacency(g, node) == MapPut(g.adjacencyList, node.id, <<>>)

AddNode(g, node) ==
    IF AddNodeRejects(g, node)
    THEN Returned(g, FALSE)
    ELSE Returned([g EXCEPT !.nodes = MapPut(g.nodes, node.id, node),
                            !.adjacencyList = AddNodeAdjacency(g, node)], TRUE)

\* Graph::removeNode.
\* RemoveNodeEdges without the test of the destination.
RemoveNodeEdgesOfSource(g, nodeId) ==
    RemoveIf(g.edges, {e \in Range(g.edges) : e.source.id = nodeId})

\* RemoveNodeEdges without the test of the source.
RemoveNodeEdgesOfDestination(g, nodeId) ==
    RemoveIf(g.edges, {e \in Range(g.edges) : e.destination.id = nodeId})

RemoveNodeEdges(g, nodeId) ==
    RemoveIf(g.edges,
             {e \in Range(g.edges) :
                e.source.id = nodeId \/ e.destination.id = nodeId})

\* RemoveNodeAdjacency without the loop over the other nodes' lists.
RemoveNodeAdjacencyOwnEntry(g, nodeId) ==
    [k \in DOMAIN g.adjacencyList \ {nodeId} |-> g.adjacencyList[k]]

RemoveNodeAdjacency(g, nodeId) ==
    [k \in DOMAIN g.adjacencyList \ {nodeId} |->
        RemoveIf(g.adjacencyList[k],
                 {e \in Range(g.adjacencyList[k]) : e.destination.id = nodeId})]

RemoveNode(g, nodeId) ==
    IF nodeId \notin DOMAIN g.nodes
    THEN Returned(g, FALSE)
    ELSE Returned([nodes |-> MapErase(g.nodes, nodeId),
                   adjacencyList |-> RemoveNodeAdjacency(g, nodeId),
                   edges |-> RemoveNodeEdges(g, nodeId)], TRUE)

\* AddEdgeRejects without the search for an edge of the same key.
AddEdgeRejectsAnyKey(g, edge) ==
    \/ edge = NullPtr
    \/ edge.source = NullPtr
    \/ edge.destination = NullPtr
    \/ edge.source.id \notin DOMAIN g.nodes
    \/ edge.destination.id \notin DOMAIN g.nodes

\* Graph::addEdge, edge = NullPtr or an Edge whose source or destination may
\* be NullPtr.
AddEdgeRejects(g, edge) ==
    \/ edge = NullPtr
    \/ edge.source = NullPtr
    \/ edge.destination = NullPtr
    \/ edge.source.id \notin DOMAIN g.nodes
    \/ edge.destination.id \notin DOMAIN g.nodes
    \/ \E i \in 1..Len(g.edges) : g.edges[i].id = edge.id

\* AddEdgeAdjacency with a second push_back, to the destination's list.
AddEdgeAdjacencyBothEnds(g, edge) ==
    LET sourceId == edge.source.id
        destId == edge.destination.id
        pushed == MapPut(g.adjacencyList, sourceId,
                         Append(g.adjacencyList[sourceId], edge))
    IN  MapPut(pushed, destId, Append(pushed[destId], edge))

\* adjacencyList_[sourceId].push_back(edge): operator[] makes the entry if
\* there is none.
AddEdgeAdjacency(g, edge) ==
    LET sourceId == edge.source.id
        edgeList == IF sourceId \in DOMAIN g.adjacencyList
                    THEN g.adjacencyList[sourceId] ELSE <<>>
    IN  MapPut(g.adjacencyList, sourceId, Append(edgeList, edge))

AddEdge(g, edge) ==
    IF AddEdgeRejects(g, edge)
    THEN Returned(g, FALSE)
    ELSE Returned([g EXCEPT !.edges = Append(g.edges, edge),
                            !.adjacencyList = AddEdgeAdjacency(g, edge)], TRUE)

\* Graph::removeEdge.  FindEdge is the find_if: the position of the first edge
\* with the key, 0 for end().
FindEdge(g, edgeId) ==
    IF \E i \in 1..Len(g.edges) : g.edges[i].id = edgeId
    THEN CHOOSE i \in 1..Len(g.edges) :
            /\ g.edges[i].id = edgeId
            /\ \A j \in 1..(i - 1) : g.edges[j].id # edgeId
    ELSE 0

\* RemoveEdgeAdjacency with the predicate comparing the destinations, not
\* the keys.
RemoveEdgeAdjacencyByDestination(g, edgeId) ==
    LET found == g.edges[FindEdge(g, edgeId)]
        sourceId == found.source.id
        edgeList == g.adjacencyList[sourceId]
    IN  MapPut(g.adjacencyList, sourceId,
               RemoveIf(edgeList,
                        {e \in Range(edgeList) :
                            e.destination.id = found.destination.id}))

RemoveEdgeAdjacency(g, edgeId) ==
    LET sourceId == g.edges[FindEdge(g, edgeId)].source.id
        edgeList == IF sourceId \in DOMAIN g.adjacencyList
                    THEN g.adjacencyList[sourceId] ELSE <<>>
    IN  MapPut(g.adjacencyList, sourceId,
               RemoveIf(edgeList, {e \in Range(edgeList) : e.id = edgeId}))

RemoveEdgeEdges(g, edgeId) ==
    LET i == FindEdge(g, edgeId)
    IN  SubSeq(g.edges, 1, i - 1) \o SubSeq(g.edges, i + 1, Len(g.edges))

RemoveEdge(g, edgeId) ==
    IF FindEdge(g, edgeId) = 0
    THEN Returned(g, FALSE)
    ELSE Returned([g EXCEPT !.adjacencyList = RemoveEdgeAdjacency(g, edgeId),
                            !.edges = RemoveEdgeEdges(g, edgeId)], TRUE)

\* Graph::clear.
Clear(g) == Returned(EmptyGraph, TRUE)

\* The Graph object of the next state.
SetStore(g) ==
    /\ nodes_' = g.nodes
    /\ adjacencyList_' = g.adjacencyList
    /\ edges_' = g.edges

\* The calls of the store operations on the Graph object of the state.
addNode(node) ==
    /\ pc = "idle"
    /\ SetStore(AddNode(G, node).g)
    /\ call' = [op |-> "addNode", ret |-> AddNode(G, node).ret]
    /\ UNCHANGED search

removeNode(nodeId) ==
    /\ pc = "idle"
    /\ SetStore(RemoveNode(G, nodeId).g)
    /\ call' = [op |-> "removeNode", ret |-> RemoveNode(G, nodeId).ret]
    /\ UNCHANGED search

addEdge(edge) ==
    /\ pc = "idle"
    /\ SetStore(AddEdge(G, edge).g)
    /\ call' = [op |-> "addEdge", ret |-> AddEdge(G, edge).ret]
    /\ UNCHANGED search

removeEdge(edgeId) ==
    /\ pc = "idle"
    /\ SetStore(RemoveEdge(G, edgeId).g)
    /\ call' = [op |-> "removeEdge", ret |-> RemoveEdge(G, edgeId).ret]
    /\ UNCHANGED search

clear ==
    /\ pc = "idle"
    /\ SetStore(Clear(G).g)
    /\ call' = [op |-> "clear", ret |-> Clear(G).ret]
    /\ UNCHANGED search

\* ----------------------------------------------- the store's specification
\* The arguments the operations are called with.  The store never reads an
\* edge's weights, so one triple of weights per edge key is enough here.
NodeInputs == {NullPtr} \cup {Node(k, n) : k \in NodeIds, n \in Names}

EndpointInputs == {NullPtr} \cup {Node(k, "n1") : k \in NodeIds}

EdgeInputs ==
    {NullPtr} \cup
    {Edge(id, src, dst, id, 2 * id, 3 * id) :
        id \in EdgeIds, src \in EndpointInputs, dst \in EndpointInputs}

NoCall == [op |-> "none", ret |-> TRUE]

NoQuery == [op |-> "none"]

NoResult == [op |-> "none"]

SearchIdle ==
    /\ pc = "idle"
    /\ query = NoQuery
    /\ distances = Empty
    /\ predecessors = Empty
    /\ via = Empty
    /\ pq = {}
    /\ processed = {}
    /\ examined = Empty
    /\ result = NoResult

Init ==
    /\ nodes_ = Empty
    /\ adjacencyList_ = Empty
    /\ edges_ = <<>>
    /\ call = NoCall
    /\ SearchIdle

Next ==
    \/ \E node \in NodeInputs : addNode(node)
    \/ \E nodeId \in NodeIds : removeNode(nodeId)
    \/ \E edge \in EdgeInputs : addEdge(edge)
    \/ \E edgeId \in EdgeIds : removeEdge(edgeId)
    \/ clear

Spec == Init /\ [][Next]_vars

\* --------------------------------------------------------- the path engine
\* PathFinder::OptimizationMode.  The enum's underlying type is int, so a
\* caller can pass a value that is none of the four enumerators.
Modes == {"DISTANCE", "TIME", "COST", "BALANCED"}

OutOfRangeMode == "OUT_OF_RANGE"

\* The constants of the BALANCED score, (w/100 + t/5 + c/50)/3.
DistanceNorm == 100

TimeNorm == 5

CostNorm == 50

Components == 3

\* Scores are held as integers, in units of 1/ScoreScale.
ScoreScale == DistanceNorm * Components

\* getEdgeWeight with the plain mean of the three weights under BALANCED.
getEdgeWeightUnnormalized(edge, mode) ==
    CASE mode = "TIME" -> edge.timeWeight * ScoreScale
      [] mode = "COST" -> edge.costWeight * ScoreScale
      [] mode = "BALANCED" ->
            (edge.weight + edge.timeWeight + edge.costWeight)
                * (ScoreScale \div Components)
      [] OTHER -> edge.weight * ScoreScale

\* PathFinder::getEdgeWeight.
getEdgeWeight(edge, mode) ==
    CASE mode = "DISTANCE" -> edge.weight * ScoreScale
      [] mode = "TIME" -> edge.timeWeight * ScoreScale
      [] mode = "COST" -> edge.costWeight * ScoreScale
      [] mode = "BALANCED" ->
            ( edge.weight * (ScoreScale \div DistanceNorm)
            + edge.timeWeight * (ScoreScale \div TimeNorm)
            + edge.costWeight * (ScoreScale \div CostNorm) ) \div Components
      [] OTHER -> edge.weight * ScoreScale

\* PathResult's constructor.
DefaultResult ==
    [op |-> "findShortestPath", found |-> FALSE, path |-> <<>>,
     totalDistance |-> 0, totalTime |-> 0, totalCost |-> 0]

\* InitialDistances with 0.0 for every node.
InitialDistancesAllZero(g, source) == [k \in DOMAIN g.nodes |-> 0]

\* distances[nodeId] = (nodeId == source) ? 0.0 : infinity, for every node.
InitialDistances(g, source) ==
    [k \in DOMAIN g.nodes |-> IF k = source THEN 0 ELSE Infinity]

NodeDistance(nodeId, distance) == [nodeId |-> nodeId, distance |-> distance]

\* Tops with the queue ordered by std::less: an entry of greatest distance.
TopsOfMaxHeap(q) == {e \in q : \A f \in q : ~Less(e.distance, f.distance)}

\* pq.top(): std::greater<NodeDistance> compares the distances alone, so any
\* entry of least distance may be the top.
Tops(q) == {e \in q : \A f \in q : ~Less(f.distance, e.distance)}

\* Improves with <= for <.
ImprovesOrEqual(dist, old) == ~Less(old, dist)

\* The condition of the relaxation, dist < distances[neighborId].
Improves(dist, old) == Less(dist, old)

\* Stale with >= for >.
StaleOrEqual(currentDist, known) == ~Less(currentDist, known)

\* The test of a stale queue entry, currentDist > distances[currentId].
Stale(currentDist, known) == Greater(currentDist, known)

\* EitherMissing with && for ||.
BothMissing(sourceNode, destNode) ==
    sourceNode = NullPtr /\ destNode = NullPtr

\* The test of line 20, !sourceNode || !destNode.
EitherMissing(sourceNode, destNode) ==
    sourceNode = NullPtr \/ destNode = NullPtr

\* Lines 61-72 of findShortestPath from the i-th outgoing edge on; st holds
\* the locals distances (d), predecessors (p), pq (q) and the history via (v).
RECURSIVE RelaxFrom(_, _, _, _, _, _)
RelaxFrom(edgeList, i, currentId, currentDist, mode, st) ==
    IF i > Len(edgeList) THEN st
    ELSE LET edge == edgeList[i]
             neighborId == edge.destination.id
             dist == currentDist + getEdgeWeight(edge, mode)
             old == IF neighborId \in DOMAIN st.d THEN st.d[neighborId] ELSE 0
             next == IF Improves(dist, old)
                     THEN [d |-> MapPut(st.d, neighborId, dist),
                           p |-> MapPut(st.p, neighborId, currentId),
                           v |-> MapPut(st.v, neighborId, edge.id),
                           q |-> st.q \cup {NodeDistance(neighborId, dist)}]
                     ELSE [st EXCEPT !.d = MapPut(st.d, neighborId, old)]
         IN  RelaxFrom(edgeList, i + 1, currentId, currentDist, mode, next)

\* PathFinder::reconstructPath, destination first: the nodes pushed so far
\* are path, the next one is at.  An empty sequence is the cleared path.
RECURSIVE WalkBack(_, _, _, _)
WalkBack(preds, source, at, path) ==
    IF at = source THEN Append(path, at)
    ELSE IF at \notin DOMAIN preds THEN <<>>
    ELSE WalkBack(preds, source, preds[at], Append(path, at))

Reverse(s) == [i \in 1..Len(s) |-> s[Len(s) + 1 - i]]

\* reconstructPath without the std::reverse.
reconstructPathUnreversed(preds, source, destination) ==
    WalkBack(preds, source, destination, <<>>)

\* reconstructPath with the test for a missing predecessor made before the
\* test for the source.
reconstructPathLinkFirst(preds, source, destination) ==
    IF destination \notin DOMAIN preds THEN <<>>
    ELSE Reverse(WalkBack(preds, source, destination, <<>>))

reconstructPath(preds, source, destination) ==
    Reverse(WalkBack(preds, source, destination, <<>>))

\* FindEdgeTo with a predicate that holds of every edge.
FindEdgeToAny(edgeList, nextId) == IF edgeList = <<>> THEN 0 ELSE 1

\* std::find_if over the outgoing edges: the position of the first edge to
\* nextId, 0 for end().
FindEdgeTo(edgeList, nextId) ==
    IF \E i \in 1..Len(edgeList) : edgeList[i].destination.id = nextId
    THEN CHOOSE i \in 1..Len(edgeList) :
            /\ edgeList[i].destination.id = nextId
            /\ \A j \in 1..(i - 1) : edgeList[j].destination.id # nextId
    ELSE 0

\* Lines 84-105 of findShortestPath: the totals of path[i..], added to t.
RECURSIVE TotalsFrom(_, _, _, _)
TotalsFrom(g, path, i, t) ==
    IF i >= Len(path) THEN t
    ELSE LET edgeList == getOutgoingEdges(g, path[i])
             at == FindEdgeTo(edgeList, path[i + 1])
             next == IF at # 0
                     THEN [totalDistance |-> t.totalDistance + edgeList[at].weight,
                           totalTime |-> t.totalTime + edgeList[at].timeWeight,
                           totalCost |-> t.totalCost + edgeList[at].costWeight]
                     ELSE t
         IN  TotalsFrom(g, path, i + 1, next)

ZeroTotals == [totalDistance |-> 0, totalTime |-> 0, totalCost |-> 0]

\* The Graph object after the lookups of lines 88-105.
RECURSIVE AfterLookups(_, _, _)
AfterLookups(g, path, i) ==
    IF i >= Len(path) THEN g
    ELSE AfterLookups(AfterGetOutgoingEdges(g, path[i]), path, i + 1)

\* findShortestPath, lines 14-40: the two lookups, the initial distances and
\* the first push.
FspBegin(source, destination, mode) ==
    /\ pc = "idle"
    /\ query' = [op |-> "findShortestPath", source |-> source,
                 destination |-> destination, mode |-> mode]
    /\ SetStore(AfterGetNode(AfterGetNode(G, source), destination))
    /\ IF EitherMissing(getNode(G, source), getNode(G, destination))
       THEN /\ result' = DefaultResult
            /\ pc' = "done"
            /\ UNCHANGED <<distances, pq>>
       ELSE /\ distances' = InitialDistances(G, source)
            /\ pq' = {NodeDistance(source, 0)}
            /\ pc' = "loop"
            /\ UNCHANGED result
    /\ UNCHANGED <<call, predecessors, via, processed, examined>>

\* findShortestPath, lines 43-73: one iteration of the loop.
FspIterate ==
    /\ pc = "loop"
    /\ query.op = "findShortestPath"
    /\ pq # {}
    /\ \E current \in Tops(pq) :
         LET currentId == current.nodeId
             currentDist == current.distance
             st == RelaxFrom(getOutgoingEdges(G, currentId), 1, currentId,
                             currentDist, query.mode,
                             [d |-> distances, p |-> predecessors,
                              v |-> via, q |-> pq \ {current}])
         IN  IF currentId = query.destination
             THEN /\ pq' = pq \ {current}
                  /\ pc' = "break"
                  /\ UNCHANGED <<store, distances, predecessors, via, examined>>
             ELSE IF Stale(currentDist, distances[currentId])
             THEN /\ pq' = pq \ {current}
                  /\ UNCHANGED <<store, pc, distances, predecessors, via, examined>>
             ELSE /\ SetStore(AfterGetOutgoingEdges(G, currentId))
                  /\ distances' = st.d
                  /\ predecessors' = st.p
                  /\ via' = st.v
                  /\ pq' = st.q
                  /\ examined' = MapPut(examined, currentId,
                        IF currentId \in DOMAIN examined
                        THEN examined[currentId] + 1 ELSE 1)
                  /\ UNCHANGED pc
    /\ UNCHANGED <<call, query, processed, result>>

\* findShortestPath, lines 75-114, once the loop has ended (the queue is
\* empty or the destination was popped).
FspFinish ==
    /\ query.op = "findShortestPath"
    /\ pc = "break" \/ (pc = "loop" /\ pq = {})
    /\ LET path == reconstructPath(predecessors, query.source, query.destination)
           t == TotalsFrom(G, path, 1, ZeroTotals)
       IN  IF distances[query.destination] = Infinity
           THEN /\ result' = DefaultResult
                /\ pc' = "done"
                /\ UNCHANGED store
           ELSE IF path = <<>>
           \* path.size() - 1 wraps around and path[0] is read out of bounds:
           \* the call faults, or goes on with whatever it read.
           THEN /\ \E fault \in BOOLEAN, junk \in {0, 1} :
                     /\ pc' = IF fault THEN "fault" ELSE "done"
                     /\ result' = [DefaultResult EXCEPT !.found = ~fault,
                                        !.totalDistance = junk]
                /\ UNCHANGED store
           ELSE /\ SetStore(AfterLookups(G, path, 1))
                /\ result' = [op |-> "findShortestPath", found |-> TRUE,
                              path |-> path,
                              totalDistance |-> t.totalDistance,
                              totalTime |-> t.totalTime,
                              totalCost |-> t.totalCost]
                /\ pc' = "done"
    /\ UNCHANGED <<call, query, distances, predecessors, via, pq, processed,
                   examined>>

\* findShortestPaths, lines 121-136.
FspsBegin(source, mode) ==
    /\ pc = "idle"
    /\ query' = [op |-> "findShortestPaths", source |-> source, mode |-> mode]
    /\ SetStore(AfterGetNode(G, source))
    /\ IF getNode(G, source) = NullPtr
       THEN /\ result' = [op |-> "findShortestPaths", distances |-> Empty]
            /\ pc' = "done"
            /\ UNCHANGED distances
       ELSE /\ distances' = InitialDistances(G, source)
            /\ pc' = "loop"
            /\ UNCHANGED result
    /\ UNCHANGED <<call, predecessors, via, pq, processed, examined>>

\* MinNodes without the comparison with the least distance seen so far.
MinNodesAny(dists, done) ==
    {k \in DOMAIN dists \ done : dists[k] # Infinity}

\* Lines 141-152: the scan keeps the first node whose distance is below the
\* least seen so far, in the iteration order of the hash map, which is any
\* order: every unprocessed node of least finite distance can be the one.
MinNodes(dists, done) ==
    {k \in DOMAIN dists \ done :
        /\ dists[k] # Infinity
        /\ \A j \in DOMAIN dists \ done : ~Less(dists[j], dists[k])}

\* Lines 163-174 from the i-th outgoing edge of minNode on.
RECURSIVE UpdateFrom(_, _, _, _, _, _)
UpdateFrom(edgeList, i, minNode, mode, done, dists) ==
    IF i > Len(edgeList) THEN dists
    ELSE LET edge == edgeList[i]
             neighborId == edge.destination.id
             dist == dists[minNode] + getEdgeWeight(edge, mode)
             next == IF neighborId \in done THEN dists
                     ELSE IF Improves(dist, dists[neighborId])
                     THEN MapPut(dists, neighborId, dist)
                     ELSE dists
         IN  UpdateFrom(edgeList, i + 1, minNode, mode, done, next)

\* findShortestPaths, lines 139-175: one round of the loop.
FspsRound ==
    /\ pc = "loop"
    /\ query.op = "findShortestPaths"
    /\ Cardinality(processed) < getNodeCount(G)
    /\ IF MinNodes(distances, processed) = {}
       THEN /\ pc' = "break"
            /\ UNCHANGED <<store, distances, processed, examined>>
       ELSE \E minNode \in MinNodes(distances, processed) :
            /\ processed' = processed \cup {minNode}
            /\ SetStore(AfterGetOutgoingEdges(G, minNode))
            /\ distances' = UpdateFrom(getOutgoingEdges(G, minNode), 1, minNode,
                                       query.mode, processed \cup {minNode},
                                       distances)
            /\ examined' = MapPut(examined, minNode,
                    IF minNode \in DOMAIN examined
                    THEN examined[minNode] + 1 ELSE 1)
            /\ UNCHANGED pc
    /\ UNCHANGED <<call, query, predecessors, via, pq, result>>

\* findShortestPaths, line 177, once the loop has ended.
FspsReturn ==
    /\ query.op = "findShortestPaths"
    /\ pc = "break" \/ (pc = "loop" /\ Cardinality(processed) >= getNodeCount(G))
    /\ result' = [op |-> "findShortestPaths", distances |-> distances]
    /\ pc' = "done"
    /\ UNCHANGED <<store, call, query, distances, predecessors, via, pq,
                   processed, examined>>

\* ------------------------------------------- the queries' specifications
\* The stores a query runs on: every node of NodeIds, and up to MaxEdges
\* edges with keys 1, 2, ... in the order they were added.  A query reads
\* the outgoing lists only, and the order of a list matters only among the
\* edges of one (source, destination) pair: so the edges are added pair by
\* pair, in every order within a pair.  The two triples of weights make the
\* modes disagree: DISTANCE and COST prefer the first, TIME and BALANCED the
\* second, and DISTANCE and TIME each have an edge of score zero.
QueryWeights == {<<0, 2, 1>>, <<1, 0, 3>>}

QueryEdge(id, c) == Edge(id, Node(c[1], "n1"), Node(c[2], "n1"),
                         c[3][1], c[3][2], c[3][3])

PairBefore(a, b) == a[1] < b[1] \/ (a[1] = b[1] /\ a[2] <= b[2])

QueryEdgeLists ==
    UNION {
        {es \in [1..k -> NodeIds \X NodeIds \X QueryWeights] :
            \A i \in 1..(k - 1) : PairBefore(es[i], es[i + 1])}
        : k \in 0..MaxEdges}

RECURSIVE AddNodes(_, _)
AddNodes(g, ids) ==
    IF ids = {} THEN g
    ELSE LET k == CHOOSE x \in ids : \A y \in ids : x <= y
         IN  AddNodes(AddNode(g, Node(k, "n1")).g, ids \ {k})

RECURSIVE AddEdges(_, _, _)
AddEdges(g, es, i) ==
    IF i > Len(es) THEN g
    ELSE AddEdges(AddEdge(g, QueryEdge(i, es[i])).g, es, i + 1)

BuildGraph(es) == AddEdges(AddNodes(EmptyGraph, NodeIds), es, 1)

\* A key that is not in the store.
AbsentId == Cardinality(NodeIds) + 1

QueryIds == NodeIds \cup {AbsentId}

QueryModes == Modes \cup {OutOfRangeMode}

InitQuery ==
    /\ \E es \in QueryEdgeLists :
         LET g == BuildGraph(es)
         IN  /\ nodes_ = g.nodes
             /\ adjacencyList_ = g.adjacencyList
             /\ edges_ = g.edges
    /\ call = NoCall
    /\ SearchIdle

NextPath ==
    \/ \E source \in QueryIds, destination \in QueryIds, mode \in QueryModes :
         FspBegin(source, destination, mode)
    \/ FspIterate
    \/ FspFinish

SpecPath == InitQuery /\ [][NextPath]_vars

NextPaths ==
    \/ \E source \in QueryIds, mode \in QueryModes : FspsBegin(source, mode)
    \/ FspsRound
    \/ FspsReturn

SpecPaths == InitQuery /\ [][NextPaths]_vars

NextQuery ==
    \/ \E source \in QueryIds, destination \in QueryIds, mode \in QueryModes :
         FspBegin(source, destination, mode)
    \/ FspIterate
    \/ FspFinish
    \/ \E source \in QueryIds, mode \in QueryModes : FspsBegin(source, mode)
    \/ FspsRound
    \/ FspsReturn

SpecQuery == InitQuery /\ [][NextQuery]_vars

\* ------------------------------------------- one call on a given store
\* One call of a store operation, with its argument and the Graph object it
\* was called on kept in query.  The stores it is called on are those the
\* operations can build: some of the nodes, stored under one name, and
\* edges of distinct keys between them, in every order.
StoreEdgeLists(present) ==
    UNION {
        {es \in [1..k -> EdgeIds \X present \X present] :
            \A i, j \in 1..k : es[i][1] = es[j][1] => i = j}
        : k \in 0..NumEdgeIds}

InputEdge(c) == Edge(c[1], Node(c[2], "n1"), Node(c[3], "n1"),
                     c[1], 2 * c[1], 3 * c[1])

RECURSIVE AddNamedNodes(_, _, _)
AddNamedNodes(g, ids, name) ==
    IF ids = {} THEN g
    ELSE LET k == CHOOSE x \in ids : \A y \in ids : x <= y
         IN  AddNamedNodes(AddNode(g, Node(k, name)).g, ids \ {k}, name)

RECURSIVE AddInputEdges(_, _, _)
AddInputEdges(g, es, i) ==
    IF i > Len(es) THEN g
    ELSE AddInputEdges(AddEdge(g, InputEdge(es[i])).g, es, i + 1)

BuildStore(present, name, es) ==
    AddInputEdges(AddNamedNodes(EmptyGraph, present, name), es, 1)

InitCall ==
    /\ \E present \in SUBSET NodeIds, name \in Names :
         \E es \in StoreEdgeLists(present) :
            LET g == BuildStore(present, name, es)
            IN  /\ nodes_ = g.nodes
                /\ adjacencyList_ = g.adjacencyList
                /\ edges_ = g.edges
    /\ call = NoCall
    /\ SearchIdle

\* The argument of a call and the Graph object it is made on.
CallOf(op, arg) == [op |-> op, arg |-> arg, before |-> G]

CallAddNode(node) ==
    /\ pc = "idle"
    /\ query' = CallOf("addNode", node)
    /\ SetStore(AddNode(G, node).g)
    /\ call' = [op |-> "addNode", ret |-> AddNode(G, node).ret]
    /\ pc' = "done"
    /\ UNCHANGED <<distances, predecessors, via, pq, processed, examined, result>>

CallRemoveNode(nodeId) ==
    /\ pc = "idle"
    /\ query' = CallOf("removeNode", nodeId)
    /\ SetStore(RemoveNode(G, nodeId).g)
    /\ call' = [op |-> "removeNode", ret |-> RemoveNode(G, nodeId).ret]
    /\ pc' = "done"
    /\ UNCHANGED <<distances, predecessors, via, pq, processed, examined, result>>

CallAddEdge(edge) ==
    /\ pc = "idle"
    /\ query' = CallOf("addEdge", edge)
    /\ SetStore(AddEdge(G, edge).g)
    /\ call' = [op |-> "addEdge", ret |-> AddEdge(G, edge).ret]
    /\ pc' = "done"
    /\ UNCHANGED <<distances, predecessors, via, pq, processed, examined, result>>

CallRemoveEdge(edgeId) ==
    /\ pc = "idle"
    /\ query' = CallOf("removeEdge", edgeId)
    /\ SetStore(RemoveEdge(G, edgeId).g)
    /\ call' = [op |-> "removeEdge", ret |-> RemoveEdge(G, edgeId).ret]
    /\ pc' = "done"
    /\ UNCHANGED <<distances, predecessors, via, pq, processed, examined, result>>

CallClear ==
    /\ pc = "idle"
    /\ query' = CallOf("clear", NullPtr)
    /\ SetStore(Clear(G).g)
    /\ call' = [op |-> "clear", ret |-> Clear(G).ret]
    /\ pc' = "done"
    /\ UNCHANGED <<distances, predecessors, via, pq, processed, examined, result>>

NextCall ==
    \/ \E node \in NodeInputs : CallAddNode(node)
    \/ \E nodeId \in NodeIds : CallRemoveNode(nodeId)
    \/ \E edge \in EdgeInputs : CallAddEdge(edge)
    \/ \E edgeId \in EdgeIds : CallRemoveEdge(edgeId)
    \/ CallClear

SpecCall == InitCall /\ [][NextCall]_vars

\* ------------------------------------------------- export and import
\* A JSON object is a function from its keys, a JSON array a sequence.  The
\* handler works on nlohmann::json values in memory, so a string or a number
\* put into a value is the string or number got out of it.
NodeJson(node) == [id |-> node.id, name |-> node.name]

EdgeJson(edge) ==
    [id |-> edge.id,
     source |-> edge.source.id,
     destination |-> edge.destination.id,
     weight |-> edge.weight,
     time_weight |-> edge.timeWeight,
     cost_weight |-> edge.costWeight]

\* JsonHandler::graphToJson, for the lists getAllNodes and getAllEdges gave.
graphToJson(allNodes, allEdges) ==
    [nodes |-> [i \in 1..Len(allNodes) |-> NodeJson(allNodes[i])],
     edges |-> [i \in 1..Len(allEdges) |-> EdgeJson(allEdges[i])]]

\* json.contains(key) and json.value(key, default).
Contains(json, key) == key \in DOMAIN json

Value(json, key, default) == IF Contains(json, key) THEN json[key] ELSE default

\* The name of a node read from a record without one.
NoName == ""

\* The weight an Edge has until it is set (Edge.hpp, timeWeight_ = 0.0 and
\* costWeight_ = 0.0).
DefaultWeight == 0

\* Lines 187-193 of jsonToGraph from the i-th node record on.
RECURSIVE LoadNodes(_, _, _)
LoadNodes(g, nodesArray, i) ==
    IF i > Len(nodesArray) THEN g
    ELSE LET nodeJson == nodesArray[i]
             node == Node(nodeJson.id, Value(nodeJson, "name", NoName))
         IN  LoadNodes(AddNode(g, node).g, nodesArray, i + 1)

\* LoadedEdge without the two setters: the constructor alone.
LoadedEdgeConstructed(edgeJson, sourceNode, destNode, weight) ==
    Edge(edgeJson.id, sourceNode, destNode, weight, DefaultWeight, DefaultWeight)

\* Lines 203-215: the edge made of a record, its primary weight read.
LoadedEdge(edgeJson, sourceNode, destNode, weight) ==
    Edge(edgeJson.id, sourceNode, destNode, weight,
         IF Contains(edgeJson, "time_weight")
         THEN edgeJson.time_weight ELSE DefaultWeight,
         IF Contains(edgeJson, "cost_weight")
         THEN edgeJson.cost_weight ELSE DefaultWeight)

\* graphToJson on the store; its value is handed to jsonToGraph.
GraphToJson ==
    /\ pc = "idle"
    /\ \E allNodes \in getAllNodes(G) :
         query' = [op |-> "jsonToGraph",
                   json |-> graphToJson(allNodes, getAllEdges(G))]
    /\ pc' = "import"
    /\ UNCHANGED <<store, call, distances, predecessors, via, pq, processed,
                   examined, result>>

\* jsonToGraph, lines 183-194: the local graph and the node records.
JsonToGraphNodes ==
    /\ pc = "import"
    /\ result' = [op |-> "jsonToGraph",
                  graph |-> IF Contains(query.json, "nodes")
                            THEN LoadNodes(EmptyGraph, query.json.nodes, 1)
                            ELSE EmptyGraph,
                  at |-> 1]
    /\ pc' = "edges"
    /\ UNCHANGED <<store, call, query, distances, predecessors, via, pq,
                   processed, examined>>

\* jsonToGraph, lines 198-219: the edge record at result.at.  edgeJson is a
\* const value, and operator[] of a const value with a key it does not have
\* is an assertion failure, or without assertions a read past the end of
\* the object: the call faults, or goes on with whatever it read.
JsonToGraphEdge ==
    /\ pc = "edges"
    /\ Contains(query.json, "edges")
    /\ result.at <= Len(query.json.edges)
    /\ LET edgeJson == query.json.edges[result.at]
           sourceNode == getNode(result.graph, edgeJson.source)
           destNode == getNode(result.graph, edgeJson.destination)
       IN  IF sourceNode = NullPtr \/ destNode = NullPtr
           THEN /\ result' = [result EXCEPT !.at = @ + 1]
                /\ UNCHANGED pc
           ELSE IF Contains(edgeJson, "weight")
           THEN /\ result' =
                     [result EXCEPT
                        !.graph = AddEdge(@, LoadedEdge(edgeJson, sourceNode,
                                             destNode, edgeJson.weight)).g,
                        !.at = @ + 1]
                /\ UNCHANGED pc
           ELSE \E fault \in BOOLEAN, junk \in {0, 1} :
                   IF fault
                   THEN /\ pc' = "fault"
                        /\ UNCHANGED result
                   ELSE /\ result' =
                             [result EXCEPT
                                !.graph = AddEdge(@, LoadedEdge(edgeJson,
                                             sourceNode, destNode, junk)).g,
                                !.at = @ + 1]
                        /\ UNCHANGED pc
    /\ UNCHANGED <<store, call, query, distances, predecessors, via, pq,
                   processed, examined>>

\* jsonToGraph, line 222.
JsonToGraphReturn ==
    /\ pc = "edges"
    /\ IF Contains(query.json, "edges")
       THEN result.at > Len(query.json.edges)
       ELSE TRUE
    /\ pc' = "done"
    /\ UNCHANGED <<store, call, query, distances, predecessors, via, pq,
                   processed, examined, result>>

\* Export and import of a store built by the operations.
NextRoundTrip ==
    \/ GraphToJson
    \/ JsonToGraphNodes
    \/ JsonToGraphEdge
    \/ JsonToGraphReturn

SpecRoundTrip == InitCall /\ [][NextRoundTrip]_vars

\* The documents jsonToGraph is called with: up to two node records, with
\* or without a name, up to two edge records between the keys 1 and 2, each
\* with any of its three weights, and documents without the edges array.
JsonLengths == 0..2

JsonKeys == {1, 2}

JsonNodeRecords ==
    {[id |-> k] : k \in JsonKeys} \cup
    {[id |-> k, name |-> "n1"] : k \in JsonKeys}

WeightFields == {"weight", "time_weight", "cost_weight"}

\* The value of each weight in a record that has it.
JsonWeight == [weight |-> 1, time_weight |-> 2, cost_weight |-> 3]

JsonEdgeRecords ==
    {[f \in {"id", "source", "destination"} \cup has |->
        CASE f = "id" -> id
          [] f = "source" -> src
          [] f = "destination" -> dst
          [] OTHER -> JsonWeight[f]] :
        id \in EdgeIds, src \in JsonKeys, dst \in JsonKeys,
        has \in SUBSET WeightFields}

JsonArrays(records) == UNION {[1..k -> records] : k \in JsonLengths}

JsonDocuments ==
    {[nodes |-> ns] : ns \in JsonArrays(JsonNodeRecords)} \cup
    {[nodes |-> ns, edges |-> es] :
        ns \in JsonArrays(JsonNodeRecords), es \in JsonArrays(JsonEdgeRecords)}

InitImport ==
    /\ nodes_ = Empty
    /\ adjacencyList_ = Empty
    /\ edges_ = <<>>
    /\ call = NoCall
    /\ pc = "import"
    /\ query \in {[op |-> "jsonToGraph", json |-> json] : json \in JsonDocuments}
    /\ distances = Empty
    /\ predecessors = Empty
    /\ via = Empty
    /\ pq = {}
    /\ processed = {}
    /\ examined = Empty
    /\ result = NoResult

NextImport ==
    \/ JsonToGraphNodes
    \/ JsonToGraphEdge
    \/ JsonToGraphReturn

SpecImport == InitImport /\ [][NextImport]_vars

\* ------------------------------------------------------- the sample data
\* The store of the demo (README.md, setupSampleData), its keys the strings
\* of the source.  The hours of the time weights are counted in tenths, 4.5
\* hours being Hours(4, 5), so that they are integers; BALANCED, which
\* divides the hours by 5, is not asked for on this store.
Hours(whole, tenths) == 10 * whole + tenths

newYork == Node("NYC", "New York City")

boston == Node("BOS", "Boston")

philadelphia == Node("PHL", "Philadelphia")

washington == Node("DC", "Washington DC")

edge1 == Edge("NYC-BOS", newYork, boston, 306, Hours(4, 5), 50)

edge2 == Edge("NYC-PHL", newYork, philadelphia, 153, Hours(2, 0), 25)

edge3 == Edge("PHL-DC", philadelphia, washington, 225, Hours(3, 0), 35)

edge4 == Edge("BOS-NYC", boston, newYork, 306, Hours(4, 5), 50)

RECURSIVE AddNodesInOrder(_, _, _)
AddNodesInOrder(g, nodes, i) ==
    IF i > Len(nodes) THEN g
    ELSE AddNodesInOrder(AddNode(g, nodes[i]).g, nodes, i + 1)

RECURSIVE AddEdgesInOrder(_, _, _)
AddEdgesInOrder(g, edges, i) ==
    IF i > Len(edges) THEN g
    ELSE AddEdgesInOrder(AddEdge(g, edges[i]).g, edges, i + 1)

setupSampleData ==
    AddEdgesInOrder(
        AddNodesInOrder(EmptyGraph,
                        <<newYork, boston, philadelphia, washington>>, 1),
        <<edge1, edge2, edge3, edge4>>, 1)

InitSample ==
    /\ nodes_ = setupSampleData.nodes
    /\ adjacencyList_ = setupSampleData.adjacencyList
    /\ edges_ = setupSampleData.edges
    /\ call = NoCall
    /\ SearchIdle

\* The keys of the four cities and a key that is not in the store.
SampleKeys == {"NYC", "BOS", "PHL", "DC", "XX"}

SampleModes == {"DISTANCE", "TIME", "COST"}

NextSample ==
    \/ \E source \in SampleKeys, destination \in SampleKeys,
          mode \in SampleModes :
         FspBegin(source, destination, mode)
    \/ FspIterate
    \/ FspFinish

SpecSample == InitSample /\ [][NextSample]_vars

\* ------------------------------------------- a missing predecessor link
\* reconstructPath tests for a node without a predecessor link (lines
\* 213-217, "should not happen with a correct graph"), and no statement of
\* findShortestPath removes a link.  To run the code behind that test, a
\* link is taken away between the end of the loop and line 81.
LoseLink ==
    /\ query.op = "findShortestPath"
    /\ pc = "break"
    /\ \E k \in DOMAIN predecessors :
         predecessors' = MapErase(predecessors, k)
    /\ UNCHANGED <<store, call, pc, query, distances, via, pq, processed,
                   examined, result>>

NextFallback ==
    \/ \E source \in SampleKeys, destination \in SampleKeys,
          mode \in SampleModes :
         FspBegin(source, destination, mode)
    \/ FspIterate
    \/ LoseLink
    \/ FspFinish

SpecFallback == InitSample /\ [][NextFallback]_vars

\* -------------------------------------------- paths and scores of a store
\* Directed paths of the store, read off the edge set: a path is a sequence
\* of node keys whose consecutive pairs are each joined by an edge.
EdgesJoining(g, a, b) ==
    {i \in 1..Len(g.edges) :
        g.edges[i].source.id = a /\ g.edges[i].destination.id = b}

Joined(g, a, b) == EdgesJoining(g, a, b) # {}

IsPathIn(g, p) == \A i \in 1..(Len(p) - 1) : Joined(g, p[i], p[i + 1])

\* The score of the cheapest edge from a to b under the mode.
CheapestScore(g, a, b, mode) ==
    LET scores == {getEdgeWeight(g.edges[i], mode) : i \in EdgesJoining(g, a, b)}
    IN  CHOOSE x \in scores : \A y \in scores : x <= y

RECURSIVE PathScoreFrom(_, _, _, _)
PathScoreFrom(g, p, i, mode) ==
    IF i >= Len(p) THEN 0
    ELSE CheapestScore(g, p[i], p[i + 1], mode) + PathScoreFrom(g, p, i + 1, mode)

PathScore(g, p, mode) == PathScoreFrom(g, p, 1, mode)

\* Every sequence of one node up to one node more than the store has: every
\* simple path, and the paths that repeat a node once.
NodeSequences ==
    UNION {[1..k -> NodeIds] : k \in 1..(Cardinality(NodeIds) + 1)}

PathsBetween(g, s, d) ==
    {p \in NodeSequences : p[1] = s /\ p[Len(p)] = d /\ IsPathIn(g, p)}

Reachable(g, s, d) == PathsBetween(g, s, d) # {}

\* The least score of a path from s to d, Infinity when there is none.
LeastScore(g, s, d, mode) ==
    LET scores == {PathScore(g, p, mode) : p \in PathsBetween(g, s, d)}
    IN  IF scores = {} THEN Infinity
        ELSE CHOOSE x \in scores : \A y \in scores : x <= y

Present(k) == k \in DOMAIN nodes_

FspDone == pc = "done" /\ query.op = "findShortestPath"

FspsDone == pc = "done" /\ query.op = "findShortestPaths"

\* C1: a path findShortestPath returns under one of the four modes scores no
\* more, under that mode, than any path of the store from the source to the
\* destination.
C1_Optimality ==
    (FspDone /\ query.mode \in Modes /\ result.found) =>
        \A p \in PathsBetween(G, query.source, query.destination) :
            PathScore(G, result.path, query.mode) <= PathScore(G, p, query.mode)

\* C1's case: the returned path has two edges and beats a direct edge, whose
\* score is strictly greater.
C1_Witness ==
    /\ FspDone /\ query.mode \in Modes /\ result.found
    /\ Len(result.path) = 3
    /\ Joined(G, query.source, query.destination)
    /\ PathScore(G, result.path, query.mode)
         < CheapestScore(G, query.source, query.destination, query.mode)

\* C2: between two present keys, findShortestPath finds a path exactly when
\* the destination can be reached from the source along edges of the store.
C2_Completeness ==
    (FspDone /\ Present(query.source) /\ Present(query.destination)) =>
        (result.found <=> Reachable(G, query.source, query.destination))

\* C2's case: not found, because the source has no outgoing edge, although the
\* destination is present and has an edge to the source.
C2_Witness ==
    /\ FspDone /\ Present(query.source) /\ Present(query.destination)
    /\ ~result.found
    /\ getOutgoingEdges(G, query.source) = <<>>
    /\ Joined(G, query.destination, query.source)

\* C3: a found result's path starts at the source, ends at the destination and
\* follows edges of the store; a result that is not found has an empty path
\* and zero totals.
C3_ResultShape ==
    FspDone =>
        IF result.found
        THEN /\ Len(result.path) >= 1
             /\ result.path[1] = query.source
             /\ result.path[Len(result.path)] = query.destination
             /\ IsPathIn(G, result.path)
        ELSE /\ result.path = <<>>
             /\ result.totalDistance = 0
             /\ result.totalTime = 0
             /\ result.totalCost = 0

\* C3's case: a found path of three distinct nodes.
C3_Witness ==
    /\ FspDone /\ result.found
    /\ Len(result.path) = 3
    /\ result.path[1] # result.path[3]

\* The edge with the key, and the sum of a weight over the edges whose
\* relaxation set the predecessor links of a path.
EdgeOfId(g, id) == g.edges[CHOOSE i \in 1..Len(g.edges) : g.edges[i].id = id]

RECURSIVE TraversedFrom(_, _, _, _, _)
TraversedFrom(g, links, p, i, field) ==
    IF i >= Len(p) THEN 0
    ELSE EdgeOfId(g, links[p[i + 1]])[field]
            + TraversedFrom(g, links, p, i + 1, field)

\* C4: the totals of a found path are the sums of the three weights over the
\* edges the search traversed.
C4_TotalsOfTraversedEdges ==
    (FspDone /\ result.found) =>
        /\ result.totalDistance =
             TraversedFrom(G, via, result.path, 1, "weight")
        /\ result.totalTime =
             TraversedFrom(G, via, result.path, 1, "timeWeight")
        /\ result.totalCost =
             TraversedFrom(G, via, result.path, 1, "costWeight")

\* C5: for a present source and one of the four modes, findShortestPaths
\* returns one entry per node of the store: 0 for the source, the least score
\* of a path from the source for a node that can be reached, infinity for the
\* others.
C5_AllDistances ==
    (FspsDone /\ Present(query.source) /\ query.mode \in Modes) =>
        /\ DOMAIN result.distances = DOMAIN nodes_
        /\ result.distances[query.source] = 0
        /\ \A k \in DOMAIN nodes_ :
             result.distances[k] = LeastScore(G, query.source, k, query.mode)

\* C5's case: a node whose distance, over two edges, is below the score of
\* the direct edge from the source.
C5_Witness ==
    /\ FspsDone /\ Present(query.source) /\ query.mode \in Modes
    /\ \E k \in DOMAIN nodes_ :
         /\ Joined(G, query.source, k)
         /\ result.distances[k]
              < CheapestScore(G, query.source, k, query.mode)

\* C6: a query with a key that is not in the store returns at once, the
\* search not run: findShortestPath the default result, findShortestPaths an
\* empty map.
C6_UnknownKeys ==
    /\ ( /\ query.op = "findShortestPath"
         /\ ~Present(query.source) \/ ~Present(query.destination) ) =>
            /\ pc = "done"
            /\ result = DefaultResult
            /\ distances = Empty /\ pq = {} /\ examined = Empty
    /\ ( query.op = "findShortestPaths" /\ ~Present(query.source) ) =>
            /\ pc = "done"
            /\ result.distances = Empty
            /\ distances = Empty /\ examined = Empty

\* C6's case: the source is in the store, which has edges, and the destination
\* is not.
C6_Witness ==
    /\ FspDone
    /\ Present(query.source) /\ ~Present(query.destination)
    /\ getOutgoingEdges(G, query.source) # <<>>

\* C7: no query with a mode that is none of the four returns after it has
\* scored an edge.
C7_OutOfRangeModeFaults ==
    (pc = "done" /\ query.op # "none" /\ query.mode \notin Modes) =>
        \A k \in DOMAIN examined : getOutgoingEdges(G, k) = <<>>

\* C8: no step of a query changes the node table, the edge set or the
\* adjacency index.
C8_QueriesLeaveStore == [][store' = store]_vars

\* C8's case: a query with a source that is not in the store has returned,
\* and the key is in neither table.
C8_Witness ==
    /\ pc = "done" /\ query.op = "findShortestPaths"
    /\ query.source \notin DOMAIN nodes_
    /\ query.source \notin DOMAIN adjacencyList_
    /\ edges_ # <<>>

\* C9: both endpoints of every edge of the edge set are in the node table.
C9_EndpointsPresent ==
    \A i \in 1..Len(edges_) :
        /\ edges_[i].source.id \in DOMAIN nodes_
        /\ edges_[i].destination.id \in DOMAIN nodes_

\* C9's case: a node was removed and an edge between the two nodes left is
\* still there.
C9_Witness ==
    /\ call.op = "removeNode" /\ call.ret
    /\ Cardinality(DOMAIN nodes_) = 2
    /\ Len(edges_) = 1
    /\ edges_[1].source.id # edges_[1].destination.id

\* C10: the adjacency index has the keys of the node table, each list holds
\* the edges of the edge set with that source, in the order of the edge set,
\* and the lists' lengths add up to edgeCount.
RECURSIVE TotalLength(_, _)
TotalLength(adj, keys) ==
    IF keys = {} THEN 0
    ELSE LET k == CHOOSE x \in keys : TRUE
         IN  Len(adj[k]) + TotalLength(adj, keys \ {k})

C10_AdjacencyConsistent ==
    /\ DOMAIN adjacencyList_ = DOMAIN nodes_
    /\ \A k \in DOMAIN nodes_ :
         adjacencyList_[k] = SelectSeq(edges_, LAMBDA e : e.source.id = k)
    /\ getEdgeCount(G) = TotalLength(adjacencyList_, DOMAIN adjacencyList_)

\* C10's case: an edge was added behind an edge of the same source that was
\* added after it was first there, removed in between.
C10_Witness ==
    /\ call.op = "addEdge" /\ call.ret
    /\ \E k \in DOMAIN adjacencyList_ :
         /\ Len(adjacencyList_[k]) = 2
         /\ adjacencyList_[k][1].id > adjacencyList_[k][2].id

\* ------------------------------------------------- the store's operations
\* C11: no two nodes of the store have the same key and no two edges of the
\* edge set have the same key, whatever operations were called: every list
\* getAllNodes returns has each node once, and getAllEdges each edge once.
C11_KeysUnique ==
    /\ \A k \in DOMAIN nodes_ : nodes_[k].id = k
    /\ \A all \in getAllNodes(G) :
         /\ Len(all) = getNodeCount(G)
         /\ \A i, j \in 1..Len(all) : all[i].id = all[j].id => i = j
    /\ \A i, j \in 1..Len(getAllEdges(G)) :
         getAllEdges(G)[i].id = getAllEdges(G)[j].id => i = j

\* C11's case: two edges of different keys join the same ordered pair of
\* nodes.
C11_Witness ==
    /\ call.op = "addEdge" /\ call.ret
    /\ Len(edges_) = 2
    /\ edges_[1].id # edges_[2].id
    /\ edges_[1].source.id = edges_[2].source.id
    /\ edges_[1].destination.id = edges_[2].destination.id
    /\ edges_[1].source.id # edges_[1].destination.id

\* A call of the operation has returned; Before is the Graph object it was
\* called on, and query.arg its argument.
HasReturned(op) == pc = "done" /\ query.op = op

Before == query.before

\* C12: a call that must be rejected returns false and changes nothing:
\* addNode with a null node or a key of the store, removeNode with a key not
\* in the store, addEdge with a null edge, a null endpoint, an endpoint key
\* not in the node table or an edge key of the store, removeEdge with a key
\* not in the edge set.
C12_RejectedCallsChangeNothing ==
    LET node == query.arg
        nodeId == query.arg
        edge == query.arg
        edgeId == query.arg
        mustReject ==
            \/ /\ HasReturned("addNode")
               /\ node = NullPtr \/ node.id \in DOMAIN Before.nodes
            \/ /\ HasReturned("removeNode")
               /\ nodeId \notin DOMAIN Before.nodes
            \/ /\ HasReturned("addEdge")
               /\ \/ edge = NullPtr
                  \/ edge.source = NullPtr
                  \/ edge.destination = NullPtr
                  \/ edge.source.id \notin DOMAIN Before.nodes
                  \/ edge.destination.id \notin DOMAIN Before.nodes
                  \/ \E e \in Range(Before.edges) : e.id = edge.id
            \/ /\ HasReturned("removeEdge")
               /\ \A e \in Range(Before.edges) : e.id # edgeId
    IN  mustReject => (~call.ret /\ G = Before)

\* C12's case: addNode was called with a key of the store under another
\* name; the node of that key has an outgoing edge.
C12_Witness ==
    /\ HasReturned("addNode")
    /\ query.arg # NullPtr
    /\ query.arg.id \in DOMAIN Before.nodes
    /\ query.arg.name # Before.nodes[query.arg.id].name
    /\ Before.adjacencyList[query.arg.id] # <<>>

\* C13: addNode with a node whose key is not in the store returns true; the
\* store then has one node more, getNode gives the node, its outgoing list
\* is empty, and the other nodes, the edges and the other lists are as they
\* were.
C13_AddNodeSucceeds ==
    LET node == query.arg
    IN  ( /\ HasReturned("addNode")
          /\ node # NullPtr
          /\ node.id \notin DOMAIN Before.nodes ) =>
             /\ call.ret
             /\ getNodeCount(G) = getNodeCount(Before) + 1
             /\ getNode(G, node.id) = node
             /\ getOutgoingEdges(G, node.id) = <<>>
             /\ \A k \in DOMAIN Before.nodes : getNode(G, k) = Before.nodes[k]
             /\ getAllEdges(G) = getAllEdges(Before)
             /\ \A k \in DOMAIN Before.adjacencyList \ {node.id} :
                  /\ k \in DOMAIN adjacencyList_
                  /\ adjacencyList_[k] = Before.adjacencyList[k]

\* C13's case: a node was added to a store holding another node and an
\* edge.
C13_Witness ==
    /\ HasReturned("addNode") /\ call.ret
    /\ Before.edges # <<>>
    /\ query.arg.id \notin DOMAIN Before.nodes

\* C14: after removeNode with a key of the store, the node is gone, no edge
\* of the edge set or of an outgoing list starts or ends at the key, and
\* every other node and every edge touching neither end at the key are
\* still in the store and in their source's list.
C14_RemoveNodeCascades ==
    LET nodeId == query.arg
    IN  (HasReturned("removeNode") /\ nodeId \in DOMAIN Before.nodes) =>
             /\ call.ret
             /\ getNode(G, nodeId) = NullPtr
             /\ \A e \in Range(getAllEdges(G)) :
                  e.source.id # nodeId /\ e.destination.id # nodeId
             /\ getOutgoingEdges(G, nodeId) = <<>>
             /\ \A k \in DOMAIN nodes_ :
                  \A e \in Range(getOutgoingEdges(G, k)) :
                     e.destination.id # nodeId
             /\ \A k \in DOMAIN Before.nodes \ {nodeId} :
                  getNode(G, k) = Before.nodes[k]
             /\ \A e \in Range(Before.edges) :
                  (e.source.id # nodeId /\ e.destination.id # nodeId) =>
                     /\ e \in Range(getAllEdges(G))
                     /\ e \in Range(getOutgoingEdges(G, e.source.id))

\* C14's case: the removed node had an edge from another node, which has
\* an edge that is left.
C14_Witness ==
    /\ HasReturned("removeNode") /\ call.ret
    /\ \E e \in Range(Before.edges) :
         /\ e.source.id # query.arg /\ e.destination.id = query.arg
         /\ Len(Before.adjacencyList[e.source.id]) = 2
         /\ Len(adjacencyList_[e.source.id]) = 1

\* C15: addEdge returns false when the key of the source or of the
\* destination is not in the node table; with both in it and no edge of the
\* same key in the store it returns true, and the edge is appended to the
\* edge set and to the list of its source, to no other list, and is in the
\* list of its source once.
C15_AddEdge ==
    LET edge == query.arg
        sourceId == edge.source.id
        destId == edge.destination.id
        after == getOutgoingEdges(G, sourceId)
    IN  ( /\ HasReturned("addEdge")
          /\ edge # NullPtr
          /\ edge.source # NullPtr
          /\ edge.destination # NullPtr ) =>
             /\ ( \/ sourceId \notin DOMAIN Before.nodes
                  \/ destId \notin DOMAIN Before.nodes ) => ~call.ret
             /\ ( /\ sourceId \in DOMAIN Before.nodes
                  /\ destId \in DOMAIN Before.nodes
                  /\ \A e \in Range(Before.edges) : e.id # edge.id ) =>
                    /\ call.ret
                    /\ getAllEdges(G) = Append(getAllEdges(Before), edge)
                    /\ after = Append(getOutgoingEdges(Before, sourceId), edge)
                    /\ \A k \in DOMAIN Before.nodes \ {sourceId} :
                         getOutgoingEdges(G, k) = getOutgoingEdges(Before, k)
                    /\ Cardinality({i \in 1..Len(after) : after[i] = edge}) = 1

\* C15's case: an edge was added from a node that had an outgoing edge to
\* another node, which has none.
C15_Witness ==
    /\ HasReturned("addEdge") /\ call.ret
    /\ query.arg.source.id # query.arg.destination.id
    /\ Before.adjacencyList[query.arg.source.id] # <<>>
    /\ adjacencyList_[query.arg.destination.id] = <<>>

\* C16: removeEdge with a key of the edge set returns true and takes the
\* edge of that key, and no other, out of the edge set and out of the list
\* of its source; the node table is as it was, and addEdge with that key and
\* endpoints of the store then succeeds.
C16_RemoveEdge ==
    LET edgeId == query.arg
    IN  ( /\ HasReturned("removeEdge")
          /\ \E e \in Range(Before.edges) : e.id = edgeId ) =>
             /\ call.ret
             /\ getAllEdges(G) =
                  SelectSeq(Before.edges, LAMBDA e : e.id # edgeId)
             /\ getEdgeCount(G) = getEdgeCount(Before) - 1
             /\ nodes_ = Before.nodes
             /\ \A k \in DOMAIN Before.nodes :
                  getOutgoingEdges(G, k) =
                     SelectSeq(getOutgoingEdges(Before, k),
                               LAMBDA e : e.id # edgeId)
             /\ \A edge \in EdgeInputs \ {NullPtr} :
                  ( /\ edge.id = edgeId
                    /\ edge.source # NullPtr /\ edge.destination # NullPtr
                    /\ edge.source.id \in DOMAIN nodes_
                    /\ edge.destination.id \in DOMAIN nodes_ )
                       => AddEdge(G, edge).ret

\* C16's case: the edge removed was one of two from the same source to the
\* same destination, and the first of them.
C16_Witness ==
    /\ HasReturned("removeEdge") /\ call.ret
    /\ Len(Before.edges) = 2
    /\ Before.edges[1].id = query.arg
    /\ Before.edges[1].source.id = Before.edges[2].source.id
    /\ Before.edges[1].destination.id = Before.edges[2].destination.id
    /\ Len(edges_) = 1

\* ------------------------------------------------- export and import
\* The nodes of a Graph object as (key, name) pairs and its edges as
\* (key, source key, destination key, three weights).
NodeSet(g) == {<<g.nodes[k].id, g.nodes[k].name>> : k \in DOMAIN g.nodes}

EdgeSet(g) ==
    {<<e.id, e.source.id, e.destination.id,
       e.weight, e.timeWeight, e.costWeight>> : e \in Range(g.edges)}

\* What C9, C10 and C11 say of the store, of a Graph object g.
StoreInvariants(g) ==
    /\ \A e \in Range(g.edges) :
         e.source.id \in DOMAIN g.nodes /\ e.destination.id \in DOMAIN g.nodes
    /\ DOMAIN g.adjacencyList = DOMAIN g.nodes
    /\ \A k \in DOMAIN g.nodes :
         g.adjacencyList[k] = SelectSeq(g.edges, LAMBDA e : e.source.id = k)
    /\ \A k \in DOMAIN g.nodes : g.nodes[k].id = k
    /\ \A i, j \in 1..Len(g.edges) : g.edges[i].id = g.edges[j].id => i = j

Imported == pc = "done" /\ query.op = "jsonToGraph"

\* C17: the Graph object jsonToGraph makes of the export of a store has the
\* store's nodes (key and name) and the store's edges (key, endpoint keys
\* and the three weights), each once, in whatever order the export listed
\* the nodes, and the store invariants hold of it.
C17_RoundTrip ==
    Imported =>
        /\ NodeSet(result.graph) = NodeSet(G)
        /\ getNodeCount(result.graph) = getNodeCount(G)
        /\ EdgeSet(result.graph) = EdgeSet(G)
        /\ getEdgeCount(result.graph) = getEdgeCount(G)
        /\ StoreInvariants(result.graph)

\* C17's case: the store has two parallel edges and a third node, and the
\* export listed the nodes with the greatest key first.
C17_Witness ==
    /\ Imported
    /\ DOMAIN nodes_ = NodeIds
    /\ \A k \in NodeIds : query.json.nodes[1].id >= k
    /\ Len(edges_) = 2
    /\ edges_[1].source.id = edges_[2].source.id
    /\ edges_[1].destination.id = edges_[2].destination.id
    /\ edges_[1].source.id # edges_[1].destination.id

\* The edge records jsonToGraph has to import: both endpoint keys are keys
\* of node records, and no earlier such record has the edge key.
NodeKeysOf(json) ==
    {Value(json, "nodes", <<>>)[i].id :
        i \in 1..Len(Value(json, "nodes", <<>>))}

EdgeRecordsOf(json) == Value(json, "edges", <<>>)

HasEndpoints(json, i) ==
    /\ EdgeRecordsOf(json)[i].source \in NodeKeysOf(json)
    /\ EdgeRecordsOf(json)[i].destination \in NodeKeysOf(json)

ToImport(json) ==
    {i \in 1..Len(EdgeRecordsOf(json)) :
        /\ HasEndpoints(json, i)
        /\ \A j \in 1..(i - 1) :
             HasEndpoints(json, j) =>
                EdgeRecordsOf(json)[j].id # EdgeRecordsOf(json)[i].id}

\* C18: jsonToGraph returns for every document; the Graph object has a node
\* for every key of a node record, and for every edge record to import an
\* edge with the record's keys and weights, zero for a weight the record
\* does not have; it has no other edge, and no edge with an endpoint that is
\* not one of its nodes.
C18_TolerantImport ==
    /\ pc # "fault"
    /\ Imported =>
         LET json == query.json
             g == result.graph
         IN  /\ DOMAIN g.nodes = NodeKeysOf(json)
             /\ EdgeSet(g) =
                  {<<r.id, r.source, r.destination,
                     Value(r, "weight", 0),
                     Value(r, "time_weight", 0),
                     Value(r, "cost_weight", 0)>> :
                   r \in {EdgeRecordsOf(json)[i] : i \in ToImport(json)}}
             /\ getEdgeCount(g) = Cardinality(ToImport(json))
             /\ \A e \in Range(g.edges) :
                  /\ e.source.id \in DOMAIN g.nodes
                  /\ e.destination.id \in DOMAIN g.nodes

\* ------------------------------------------------------- the sample data
\* C19: on the sample store, findShortestPath(NYC, DC, DISTANCE) returns
\* found = true, the path NYC, PHL, DC, totalDistance 378, totalTime 5.0 and
\* totalCost 60.
C19_ScenarioA ==
    ( /\ FspDone
      /\ query.source = "NYC"
      /\ query.destination = "DC"
      /\ query.mode = "DISTANCE" ) =>
         /\ result.found
         /\ result.path = <<"NYC", "PHL", "DC">>
         /\ result.totalDistance = 378
         /\ result.totalTime = Hours(5, 0)
         /\ result.totalCost = 60

\* C19's case: that query has returned, on the store of four nodes and four
\* edges added in the order of the demo.
C19_Witness ==
    /\ FspDone
    /\ query.source = "NYC"
    /\ query.destination = "DC"
    /\ query.mode = "DISTANCE"
    /\ getNodeCount(G) = 4
    /\ [i \in 1..getEdgeCount(G) |-> getAllEdges(G)[i].id]
         = <<"NYC-BOS", "NYC-PHL", "PHL-DC", "BOS-NYC">>

\* ------------------------------------------- a missing predecessor link
\* The walk back from at meets, before the source, a node without a link.
RECURSIVE MeetsMissingLink(_, _, _)
MeetsMissingLink(preds, source, at) ==
    /\ at # source
    /\ \/ at \notin DOMAIN preds
       \/ MeetsMissingLink(preds, source, preds[at])

Settled == DOMAIN examined

SameLink(k) ==
    IF k \in DOMAIN predecessors
    THEN k \in DOMAIN predecessors' /\ predecessors'[k] = predecessors[k]
    ELSE k \notin DOMAIN predecessors'

\* C21: in findShortestPath, no step changes the tentative distance or the
\* predecessor of a node that has been popped with its tentative distance,
\* every entry still queued for such a node is stale, and the outgoing edges
\* of a node are examined in at most one iteration; in findShortestPaths, no
\* step changes the distance of a processed node.
C21_SettlingIsFinal ==
    /\ [][ query'.op = "findShortestPath" =>
             \A k \in DOMAIN examined' :
                 distances'[k] = distances[k] /\ SameLink(k) ]_vars
    /\ [][ query'.op = "findShortestPaths" =>
             \A k \in processed' : distances'[k] = distances[k] ]_vars
    /\ [](query.op = "findShortestPath" =>
             /\ \A e \in pq : e.nodeId \in Settled =>
                    Stale(e.distance, distances[e.nodeId])
             /\ \A k \in Settled : examined[k] = 1)

\* C21's case: two nodes are settled, an edge of score zero leads from one
\* back to the other, and an entry for a settled node is still queued.
C21_Witness ==
    /\ query.op = "findShortestPath" /\ pc = "loop"
    /\ Cardinality(Settled) = 2
    /\ \E e \in pq : e.nodeId \in Settled
    /\ \E i \in 1..Len(edges_) :
         /\ edges_[i].source.id \in Settled
         /\ edges_[i].destination.id \in Settled
         /\ edges_[i].source.id # edges_[i].destination.id
         /\ getEdgeWeight(edges_[i], query.mode) = 0

\* C22: an iteration of findShortestPath that pops an entry of the destination
\* ends the loop; the destination's outgoing edges are never examined; and
\* when the loop has ended this way the destination's tentative distance is
\* the least score of a path from the source to it.
C22_EarlyTermination ==
    /\ [][ query'.op = "findShortestPath" =>
             \A e \in pq \ pq' :
                 e.nodeId = query'.destination => pc' = "break" ]_vars
    /\ [](query.op = "findShortestPath" =>
             /\ query.destination \notin Settled
             /\ pc = "break" =>
                  distances[query.destination] =
                      LeastScore(G, query.source, query.destination, query.mode))

\* C22's case: the destination, which is not the source, was popped while
\* another entry is still queued, and it has an outgoing edge that a further
\* iteration would have examined.
C22_Witness ==
    /\ query.op = "findShortestPath" /\ pc = "break"
    /\ query.source # query.destination
    /\ \E e \in pq : e.nodeId # query.destination
    /\ getOutgoingEdges(G, query.destination) # <<>>

\* The queries run to their end.  A call runs on its caller's thread: a loop
\* that can take another iteration takes it, and a call whose loop has ended
\* returns.  The stores have up to NumEdgeIds edges, which is enough for a
\* cycle, a cycle of score zero, a self-loop and a pair of parallel edges;
\* under DISTANCE some edges score zero, under BALANCED none does.
RunEdgeLists == {es \in QueryEdgeLists : Len(es) <= NumEdgeIds}

RunModes == {"DISTANCE", "BALANCED"}

InitRun ==
    /\ \E es \in RunEdgeLists :
         LET g == BuildGraph(es)
         IN  /\ nodes_ = g.nodes
             /\ adjacencyList_ = g.adjacencyList
             /\ edges_ = g.edges
    /\ call = NoCall
    /\ SearchIdle

NextRun ==
    \/ \E source \in QueryIds, destination \in QueryIds, mode \in RunModes :
         FspBegin(source, destination, mode)
    \/ FspIterate
    \/ FspFinish
    \/ \E source \in QueryIds, mode \in RunModes : FspsBegin(source, mode)
    \/ FspsRound
    \/ FspsReturn

Step == FspIterate \/ FspFinish \/ FspsRound \/ FspsReturn

SpecRun == InitRun /\ [][NextRun]_vars /\ WF_vars(Step)

\* C23: a query whose loop has started returns; a round of findShortestPaths
\* marks one more node processed or ends the loop, so there are at most
\* nodeCount rounds; an iteration of findShortestPath queues an entry only
\* with a distance below the node's tentative distance before the iteration.
C23_Termination ==
    /\ (pc = "loop") ~> (pc = "done")
    /\ [][ (query.op = "findShortestPaths" /\ pc = "loop") =>
             \/ pc' # "loop"
             \/ /\ processed \subseteq processed'
                /\ Cardinality(processed') = Cardinality(processed) + 1 ]_vars
    /\ [](query.op = "findShortestPaths" =>
             /\ Cardinality(processed) <= getNodeCount(G)
             /\ DOMAIN examined = processed
             /\ \A k \in processed : examined[k] = 1)
    /\ [][ (query.op = "findShortestPath" /\ pc = "loop") =>
             \A e \in pq' \ pq :
                 /\ Less(e.distance, distances[e.nodeId])
                 /\ ~Less(e.distance, distances'[e.nodeId]) ]_vars

\* C23's case: findShortestPath has returned after it examined both nodes of
\* a cycle of two edges of score zero.
C23_Witness ==
    /\ FspDone
    /\ \E a \in Settled, b \in Settled :
         /\ a # b
         /\ \E i \in EdgesJoining(G, a, b) :
                getEdgeWeight(edges_[i], query.mode) = 0
         /\ \E i \in EdgesJoining(G, b, a) :
                getEdgeWeight(edges_[i], query.mode) = 0

\* -------------------------------------------- the two queries side by side
\* findShortestPaths as a function of the store, the source and the mode:
\* the maps its loop (lines 139-175) can return from the processed set done
\* and the distances dists, one for each choice of the minimal node in each
\* round.
RECURSIVE FspsFrom(_, _, _, _)
FspsFrom(g, mode, done, dists) ==
    IF Cardinality(done) >= getNodeCount(g) \/ MinNodes(dists, done) = {}
    THEN {dists}
    ELSE UNION { FspsFrom(g, mode, done \cup {minNode},
                          UpdateFrom(getOutgoingEdges(g, minNode), 1, minNode,
                                     mode, done \cup {minNode}, dists))
                 : minNode \in MinNodes(dists, done) }

findShortestPaths(g, source, mode) ==
    IF getNode(g, source) = NullPtr THEN {Empty}
    ELSE FspsFrom(g, mode, {}, InitialDistances(g, source))

\* The total of a result that the mode optimizes, in units of score.
TotalOf(r, mode) ==
    CASE mode = "DISTANCE" -> r.totalDistance * ScoreScale
      [] mode = "TIME" -> r.totalTime * ScoreScale
      [] mode = "COST" -> r.totalCost * ScoreScale

\* C24: for a present source s and a node d, findShortestPath(s, d, mode) is
\* found exactly when the entry of d in findShortestPaths(s, mode) is finite,
\* and then under DISTANCE, TIME and COST the total of that mode equals the
\* entry.
C24_QueriesAgree ==
    (FspDone /\ Present(query.source) /\ Present(query.destination)
             /\ query.mode \in Modes) =>
        \A all \in findShortestPaths(G, query.source, query.mode) :
            /\ result.found <=> all[query.destination] # Infinity
            /\ (result.found /\ query.mode # "BALANCED") =>
                   TotalOf(result, query.mode) = all[query.destination]

\* ---------------------------------------------------- the score of an edge
\* The score as the design states it, in units of 1/ScoreScale: the weight
\* the mode names, and under BALANCED (w/100 + t/5 + c/50)/3, which is
\* (w + 20 t + 2 c)/300, that is w + 20 t + 2 c of these units.
WeightedSum(edge) == edge.weight + 20 * edge.timeWeight + 2 * edge.costWeight

StatedScore(edge, mode) ==
    CASE mode = "DISTANCE" -> edge.weight * ScoreScale
      [] mode = "TIME" -> edge.timeWeight * ScoreScale
      [] mode = "COST" -> edge.costWeight * ScoreScale
      [] mode = "BALANCED" -> WeightedSum(edge)

LeastOf(S) == CHOOSE x \in S : \A y \in S : ~Less(y, x)

\* The distance of k once the edges out of from have been relaxed, from
\* being at distance base, with the stated score.
RelaxedTo(k, from, base, mode) ==
    LeastOf({distances[k]} \cup
            {base + StatedScore(edges_[i], mode) : i \in EdgesJoining(G, from, k)})

RECURSIVE WeightedSumFrom(_, _)
WeightedSumFrom(p, i) ==
    IF i >= Len(p) THEN 0
    ELSE LeastOf({WeightedSum(edges_[j]) : j \in EdgesJoining(G, p[i], p[i + 1])})
            + WeightedSumFrom(p, i + 1)

\* C25: under each of the four modes, an iteration of findShortestPath that
\* examines a node, and a round of findShortestPaths that processes one,
\* relax its outgoing edges with the stated score; and the path a BALANCED
\* findShortestPath returns has the least sum of
\* primary + 20 * secondary + 2 * tertiary over its edges.
C25_EdgeScore ==
    /\ [][ ( /\ query.op = "findShortestPath" /\ pc = "loop"
             /\ query.mode \in Modes
             /\ examined' # examined ) =>
             LET current == CHOOSE k \in DOMAIN examined' :
                                k \notin DOMAIN examined
             IN  \A k \in DOMAIN distances :
                    distances'[k] =
                        RelaxedTo(k, current, distances[current], query.mode) ]_vars
    /\ [][ ( /\ query.op = "findShortestPaths" /\ pc = "loop"
             /\ query.mode \in Modes
             /\ processed' # processed ) =>
             LET minNode == CHOOSE k \in processed' : k \notin processed
             IN  \A k \in DOMAIN distances :
                    distances'[k] =
                        IF k \in processed' THEN distances[k]
                        ELSE RelaxedTo(k, minNode, distances[minNode],
                                       query.mode) ]_vars
    /\ []( (FspDone /\ query.mode = "BALANCED" /\ result.found) =>
             \A p \in PathsBetween(G, query.source, query.destination) :
                 WeightedSumFrom(result.path, 1) <= WeightedSumFrom(p, 1) )

\* C25's case: a BALANCED query returned a path of two edges although a
\* direct edge has a smaller primary weight than the path.
C25_Witness ==
    /\ FspDone /\ query.mode = "BALANCED" /\ result.found
    /\ Len(result.path) = 3
    /\ \E i \in EdgesJoining(G, query.source, query.destination) :
           edges_[i].weight < result.totalDistance

\* --------------------------------------------------- the predecessor links
\* Following the links from at arrives at the source within steps links.
RECURSIVE LeadsToSource(_, _)
LeadsToSource(at, steps) ==
    \/ at = query.source
    \/ /\ steps > 0
       /\ at \in DOMAIN predecessors
       /\ LeadsToSource(predecessors[at], steps - 1)

\* The nodes other than the source that the search has reached.
Reached ==
    {k \in DOMAIN distances : k # query.source /\ distances[k] # Infinity}

\* C26: at every step of findShortestPath, every node other than the source
\* with a finite tentative distance has a predecessor link, to a node of
\* finite tentative distance from which an edge of the store leads to it with
\* a score that makes up the difference of the two distances, and the links
\* lead from it to the source; no call takes the missing-predecessor branch.
C26_PredecessorChain ==
    query.op = "findShortestPath" =>
        /\ \A k \in Reached :
             /\ k \in DOMAIN predecessors
             /\ distances[predecessors[k]] # Infinity
             /\ \E i \in EdgesJoining(G, predecessors[k], k) :
                    distances[k] = distances[predecessors[k]]
                                     + getEdgeWeight(edges_[i], query.mode)
             /\ LeadsToSource(k, getNodeCount(G))
        /\ pc # "fault"
        /\ (pc = "done" /\ distances # Empty
                /\ distances[query.destination] # Infinity) =>
               result.found /\ result.path # <<>>

\* C26's case: a node two links from the source, while the loop runs.
C26_Witness ==
    /\ query.op = "findShortestPath" /\ pc = "loop"
    /\ \E k \in Reached :
         /\ predecessors[k] \in Reached
         /\ predecessors[predecessors[k]] = query.source

\* C27: findShortestPath from a present key to itself returns, under every
\* mode, found with the path of that one key and totals of zero, and examines
\* no edge.
C27_SourceIsDestination ==
    (FspDone /\ Present(query.source) /\ query.source = query.destination) =>
        /\ result = [DefaultResult EXCEPT !.found = TRUE,
                                          !.path = <<query.source>>]
        /\ examined = Empty

\* C27's case: the key has a self-loop of score zero and lies on a cycle
\* through another node.
C27_Witness ==
    /\ FspDone /\ query.source = query.destination /\ result.found
    /\ \E i \in EdgesJoining(G, query.source, query.source) :
           getEdgeWeight(edges_[i], query.mode) = 0
    /\ \E k \in DOMAIN nodes_ :
         /\ k # query.source
         /\ Joined(G, query.source, k)
         /\ Joined(G, k, query.source)

\* Following the links from at arrives at k within steps links.
RECURSIVE ComesBackTo(_, _, _)
ComesBackTo(k, at, steps) ==
    \/ at = k
    \/ /\ steps > 0
       /\ at \in DOMAIN predecessors
       /\ ComesBackTo(k, predecessors[at], steps - 1)

\* C28: the path findShortestPath returns has no key twice and at most
\* nodeCount keys, and at no step of the search do the predecessor links
\* form a cycle.
C28_SimplePaths ==
    query.op = "findShortestPath" =>
        /\ \A k \in DOMAIN predecessors :
               ~ComesBackTo(k, predecessors[k], getNodeCount(G))
        /\ (pc = "done" /\ result.found) =>
               /\ \A i, j \in 1..Len(result.path) :
                      result.path[i] = result.path[j] => i = j
               /\ Len(result.path) <= getNodeCount(G)

\* C28's case: a path of three keys was returned from a store where the edge
\* taken from the first key to the second has score zero and an edge of
\* score zero leads back.
C28_Witness ==
    /\ FspDone /\ result.found /\ Len(result.path) = 3
    /\ \E i \in EdgesJoining(G, result.path[2], result.path[1]) :
           getEdgeWeight(edges_[i], query.mode) = 0
    /\ getEdgeWeight(EdgeOfId(G, via[result.path[2]]), query.mode) = 0

\* C29: the map findShortestPaths returns is the only map it can return for
\* the store, the source and the mode, whichever node of least distance each
\* round selects.
C29_TieBreakIndependence ==
    FspsDone =>
        findShortestPaths(G, query.source, query.mode) = {result.distances}

\* C29's case: two nodes are each an edge of score zero from the source, so
\* that they tie in the second round, and an edge joins them.
C29_Witness ==
    /\ FspsDone
    /\ \E a, b \in DOMAIN nodes_ \ {query.source} :
         /\ a # b
         /\ \E i \in EdgesJoining(G, query.source, a) :
                getEdgeWeight(edges_[i], query.mode) = 0
         /\ \E i \in EdgesJoining(G, query.source, b) :
                getEdgeWeight(edges_[i], query.mode) = 0
         /\ Joined(G, a, b)

\* ------------------------------------------- a node removed and added again
\* On a store the operations can build: removeNode(k), then addNode of a node
\* with the key k and another name, then an addEdge with the key of an edge
\* the removal cascaded to; a findShortestPath can start once the node has
\* been added again.  The weights of an edge are those of its key, all
\* positive.  call keeps the key, the Graph object before the removal
\* and the edge that was added.
InitReadd ==
    /\ \E present \in SUBSET NodeIds :
         \E es \in StoreEdgeLists(present) :
            LET g == BuildStore(present, "n1", es)
            IN  /\ nodes_ = g.nodes
                /\ adjacencyList_ = g.adjacencyList
                /\ edges_ = g.edges
    /\ call = NoCall
    /\ SearchIdle

ReaddRemoveNode(nodeId) ==
    /\ pc = "idle"
    /\ call = NoCall
    /\ SetStore(RemoveNode(G, nodeId).g)
    /\ call' = [op |-> "removeNode", ret |-> RemoveNode(G, nodeId).ret,
                key |-> nodeId, before |-> G]
    /\ UNCHANGED search

ReaddAddNode ==
    /\ pc = "idle"
    /\ call.op = "removeNode"
    /\ call.ret
    /\ SetStore(AddNode(G, Node(call.key, "n2")).g)
    /\ call' = [call EXCEPT !.op = "addNode",
                            !.ret = AddNode(G, Node(call.key, "n2")).ret]
    /\ UNCHANGED search

ReaddAddEdge(edge) ==
    /\ pc = "idle"
    /\ call.op = "addNode"
    /\ edge # NullPtr
    /\ \E i \in 1..Len(call.before.edges) :
         /\ call.before.edges[i].id = edge.id
         /\ \/ call.before.edges[i].source.id = call.key
            \/ call.before.edges[i].destination.id = call.key
    /\ SetStore(AddEdge(G, edge).g)
    /\ call' = [op |-> "addEdge", ret |-> AddEdge(G, edge).ret,
                key |-> call.key, before |-> call.before, edge |-> edge]
    /\ UNCHANGED search

\* After the addNode, a search between any two keys; after an addEdge that
\* succeeded, the search from the source of the new edge to its destination.
ReaddFindShortestPath(source, destination) ==
    /\ IF call.op = "addEdge"
       THEN /\ call.ret
            /\ source = call.edge.source.id
            /\ destination = call.edge.destination.id
       ELSE call.op = "addNode"
    /\ FspBegin(source, destination, "DISTANCE")

NextReadd ==
    \/ \E nodeId \in NodeIds : ReaddRemoveNode(nodeId)
    \/ ReaddAddNode
    \/ \E edge \in EdgeInputs : ReaddAddEdge(edge)
    \/ \E source \in NodeIds, destination \in NodeIds :
         ReaddFindShortestPath(source, destination)
    \/ FspIterate
    \/ FspFinish

SpecReadd == InitReadd /\ [][NextReadd]_vars

\* The edges the removal of call.key cascaded to, and those it left.
Cascaded ==
    {e \in Range(call.before.edges) :
        e.source.id = call.key \/ e.destination.id = call.key}

Survivors == Range(call.before.edges) \ Cascaded

Touches(e, k) == e.source.id = k \/ e.destination.id = k

\* The edges a search went over: for each predecessor link, the edges of the
\* predecessor's list with the key the relaxation recorded.
Traversed ==
    UNION { {e \in Range(getOutgoingEdges(G, predecessors[n])) : e.id = via[n]}
            : n \in DOMAIN predecessors }

\* C30: once a removeNode(k) that succeeded has been followed by an addNode
\* with the key k, the outgoing list of k is empty and no edge of the store
\* or of a list has k as source or destination; an addEdge that follows, with
\* the key of a cascaded edge and endpoints in the store, succeeds; and a
\* findShortestPath that follows goes over edges the removal left or the
\* edge added since, never over a cascaded edge.
C30_NoResurrection ==
    /\ (call.op = "addNode") =>
          /\ call.ret
          /\ call.key \in DOMAIN nodes_
          /\ getOutgoingEdges(G, call.key) = <<>>
          /\ \A e \in Range(edges_) : ~Touches(e, call.key)
          /\ \A n \in DOMAIN adjacencyList_ :
                \A e \in Range(adjacencyList_[n]) : ~Touches(e, call.key)
    /\ ( /\ call.op = "addEdge"
         /\ call.edge # NullPtr
         /\ call.edge.source # NullPtr /\ call.edge.destination # NullPtr
         /\ call.edge.source.id \in DOMAIN nodes_
         /\ call.edge.destination.id \in DOMAIN nodes_
         /\ \E e \in Cascaded : e.id = call.edge.id ) =>
            /\ call.ret
            /\ call.edge \in Range(edges_)
    /\ (call.op = "addNode") => Traversed \subseteq Survivors
    /\ (call.op = "addEdge") =>
            Traversed \subseteq
                Survivors \cup (IF call.ret THEN {call.edge} ELSE {})

\* C30's case: the removal cascaded to an edge into k and an edge out of k;
\* k was added again, an edge with the key of one of them was added from k,
\* and a search went over it.
C30_Witness ==
    /\ call.op = "addEdge" /\ call.ret
    /\ \E e \in Cascaded : e.source.id = call.key /\ e.destination.id # call.key
    /\ \E e \in Cascaded : e.destination.id = call.key /\ e.id = call.edge.id
    /\ call.edge.source.id = call.key
    /\ FspDone /\ result.found
    /\ call.edge \in Traversed

====
